---- MODULE Spec2Model ----
(***************************************************************************)
(* A day on the island of simulation_with_stats.py: the main thread sets   *)
(* the day up, the EventManager, every CruiseShip and every Passenger is   *)
(* a thread of its own, and the main thread runs the HungerGames           *)
(* tournament on the stranded registry once the ships have been joined.    *)
(*                                                                         *)
(* One action is one atomic step of one thread: it holds at most one       *)
(* access to state that another thread reads or writes (an Event, a        *)
(* Location's count under its lock, an entry of stats, a registry).        *)
(* time.sleep is a point where any other thread may run for any number of  *)
(* steps; durations are not modelled.  stats[k] += 1 is a read followed by *)
(* a write (no lock guards stats), so two threads may interleave there.    *)
(***************************************************************************)
EXTENDS Integers, Sequences, FiniteSets, TLC

\* ---------------------------------------------------------------- bounds
\* Ships of the day (NUM_SHIPS_PER_DAY in the source, scaled down).
NumShips == 1
\* Passengers of the day over all ships (NUM_SHIPS_PER_DAY * PASSENGERS_PER_SHIP
\* in the source, scaled down); they are dealt to the ships in turn.
NumPassengers == 2
\* Passes of the ashore loop begun during the day, over all passengers
\* (in the source the ship's stay of SHIP_STAY_SECONDS bounds them); a
\* passenger that would begin one more waits at the loop's test until its
\* ship has departed.
MaxTrips == 3
\* max_capacity of an excursion (30 in the source, scaled down so that the
\* modelled passengers can fill a location); the bar holds one more (50 in
\* the source).
Capacity == 1
\* Combatants of a tournament checked on its own (HGSpec).
MaxFighters == 4

\* -------------------------------------------------------------- constants
StrengthMin == 30
StrengthMax == 100

Ships == 1..NumShips
Passengers == 1..NumPassengers

\* The ship a passenger is created for and attached to.
ShipOf(p) == ((p - 1) % NumShips) + 1

\* The strengths PassengerFactory.create draws from in a whole day.  Only the
\* tournament reads a strength, and every match has both outcomes whatever
\* the two strengths are, so the day is run with one value of
\* random.randint(30, 100); the tournament on its own (HGSpec) varies them.
Strengths == {StrengthMin}

\* The strengths of the combatants of a tournament checked on its own.
FighterStrengths ==
  {StrengthMin, (StrengthMin + StrengthMax) \div 2, StrengthMax}

\* Island.locations, by position in the list.  The island of the model keeps
\* three of the source's eight: a bar (an incident roll) and the two
\* excursions (a death roll, then an incident roll).  The restaurants,
\* shopping_street and paradise_beach differ from the bar in the key counted.
\* Passenger.was_drunk is not kept: it is read only by return_to_ship, to
\* choose whether to sleep before the taxi ride, and durations are not
\* modelled.
LocationNames ==
  << "irish_bar", "hiking_excursion", "snorkeling_excursion" >>

Locations == 1..Len(LocationNames)

\* Location.max_capacity, in the order of the source's capacities.
max_capacity(l) ==
  IF LocationNames[l] = "irish_bar" THEN Capacity + 1 ELSE Capacity

\* The substring tests of the source, by the names they hold for.
NameHasRestaurant(n) == n \in {"mexican_restaurant", "italian_restaurant"}
NameHasBar(n) == n \in {"senor_frog_bar", "irish_bar"}
NameHasBeach(n) == n \in {"paradise_beach"}

\* The keys of stats.
StatKeys ==
  { "died_cliff", "died_shark", "drunk", "intoxicated", "popup_delay",
    "fell_asleep", "lost_hiking", "snorkel_delay", "stranded", "boarded",
    "total_passengers" }

DeathKeys == {"died_cliff", "died_shark"}

VARIABLES
  mainpc,       \* where the main thread is
  shippc,       \* where each CruiseShip thread is
  arrived,      \* CruiseShip.arrived_event
  last_call,    \* CruiseShip.last_call_event
  departed,     \* CruiseShip.departed_event
  count,        \* Location.count
  ppc,          \* where each Passenger thread is
  strength,     \* Passenger.strength
  cur,          \* Passenger.current_location (0: None)
  is_dead,      \* Passenger.is_dead
  on_board,     \* Passenger.on_board
  returns,      \* per passenger, its calls of return_to_ship so far
  pkey,         \* the stats key a passenger is incrementing ("": none)
  preg,         \* the value of stats[pkey] the passenger has read
  trips,        \* passes of the ashore loop begun so far
  stats,        \* the stats dictionary
  incs,         \* per key, the increments of it that have completed
  stranded_passengers,
  dead_passengers,
  fighters,     \* HungerGames.run: the local list fighters
  hgInput,      \* HungerGames.run: list(stranded) as it was copied
  matches,      \* HungerGames.run: matches printed so far
  survivor,     \* HungerGames.run: the reported survivor (0: none reported)
  empc,         \* where the EventManager thread is
  stop_event    \* EventManager.stop_event

vars ==
  << mainpc, shippc, arrived, last_call, departed, count, ppc,
     strength, cur, is_dead, on_board, pkey, preg, trips,
     returns, stats, incs, stranded_passengers, dead_passengers, fighters,
     hgInput, matches, survivor, empc, stop_event >>

shipVars == << shippc, arrived, last_call, departed >>
passVars == << ppc, cur, is_dead, on_board, pkey, preg, returns >>
hgVars == << fighters, hgInput, matches, survivor >>
emVars == << empc, stop_event >>

\* The process is alive: every other thread is a daemon and ends with main.
Running == mainpc /= "exited"

Init ==
  /\ mainpc = "setup"
  /\ shippc = [s \in Ships |-> "unborn"]
  /\ arrived = [s \in Ships |-> FALSE]
  /\ last_call = [s \in Ships |-> FALSE]
  /\ departed = [s \in Ships |-> FALSE]
  /\ count = [l \in Locations |-> 0]
  /\ ppc = [p \in Passengers |-> "unborn"]
  /\ strength = [p \in Passengers |-> StrengthMin]
  /\ cur = [p \in Passengers |-> 0]
  /\ is_dead = [p \in Passengers |-> FALSE]
  /\ on_board = [p \in Passengers |-> FALSE]
  /\ returns = [p \in Passengers |-> 0]
  /\ pkey = [p \in Passengers |-> ""]
  /\ preg = [p \in Passengers |-> 0]
  /\ trips = 0
  /\ stats = [k \in StatKeys |-> 0]
  /\ incs = [k \in StatKeys |-> 0]
  /\ stranded_passengers = << >>
  /\ dead_passengers = << >>
  /\ fighters = << >>
  /\ hgInput = << >>
  /\ matches = 0
  /\ survivor = 0
  /\ empc = "unborn"
  /\ stop_event = FALSE

\* ------------------------------------------------------------ main: setup
\* setup_day creates ship 1, then its passengers, then ship 2, ...
PassengersOf(s) == {p \in Passengers : ShipOf(p) = s}

\* setup_day starts the EventManager and then creates and starts the first
\* ship; the later ships follow the passengers of the ship before them.
SetupShip(s) ==
  /\ mainpc = "setup"
  /\ shippc[s] = "unborn"
  /\ \A t \in Ships : t < s =>
        /\ shippc[t] /= "unborn"
        /\ \A p \in PassengersOf(t) : ppc[p] /= "unborn"
  /\ shippc' = [shippc EXCEPT ![s] = "scheduled"]
  /\ empc' = IF empc = "unborn" THEN "top" ELSE empc
  /\ UNCHANGED << stop_event, trips, mainpc, arrived, last_call, departed, count, passVars,
                  strength, stats, incs, stranded_passengers,
                  dead_passengers, hgVars >>

\* The passenger setup_day creates last.
LastCreated(p) ==
  /\ ShipOf(p) = NumShips
  /\ \A q \in PassengersOf(ShipOf(p)) : q <= p

\* PassengerFactory.create, attach_to_ship and start, for the next passenger
\* of the ship created last; after the last one setup_day returns and main
\* goes on to join the ships.
CreatePassenger(p) ==
  /\ mainpc = "setup"
  /\ ppc[p] = "unborn"
  /\ shippc[ShipOf(p)] /= "unborn"
  /\ \A q \in PassengersOf(ShipOf(p)) : q < p => ppc[q] /= "unborn"
  /\ \E st \in Strengths : strength' = [strength EXCEPT ![p] = st]
  /\ stats' = [stats EXCEPT !["total_passengers"] = @ + 1]
  /\ incs' = [incs EXCEPT !["total_passengers"] = @ + 1]
  /\ ppc' = [ppc EXCEPT ![p] = "wait"]
  /\ mainpc' = IF LastCreated(p) THEN "join" ELSE "setup"
  /\ UNCHANGED << returns, emVars, trips, shipVars, count, cur, is_dead, on_board,
                  pkey, preg, stranded_passengers, dead_passengers,
                  hgVars >>

\* ------------------------------------------------------------------ ship
notify_last_call_departs(s) ==
  /\ departed' = [departed EXCEPT ![s] = TRUE]
  /\ UNCHANGED last_call

notify_last_call(s) ==
  /\ last_call' = [last_call EXCEPT ![s] = TRUE]
  /\ UNCHANGED departed

notify_departure(s) ==
  /\ departed' = [departed EXCEPT ![s] = TRUE]
  /\ UNCHANGED last_call

ShipArrive(s) ==
  /\ Running
  /\ shippc[s] = "scheduled"
  /\ arrived' = [arrived EXCEPT ![s] = TRUE]
  /\ shippc' = [shippc EXCEPT ![s] = "ashore"]
  /\ UNCHANGED << emVars, trips, mainpc, last_call, departed, count, passVars, strength,
                  stats, incs, stranded_passengers, dead_passengers,
                  hgVars >>

ShipLastCall(s) ==
  /\ Running
  /\ shippc[s] = "ashore"
  /\ notify_last_call(s)
  /\ shippc' = [shippc EXCEPT ![s] = "last_call"]
  /\ UNCHANGED << emVars, trips, mainpc, arrived, count, passVars, strength, stats,
                  incs, stranded_passengers, dead_passengers, hgVars >>

ShipDepart(s) ==
  /\ Running
  /\ shippc[s] = "last_call"
  /\ notify_departure(s)
  /\ shippc' = [shippc EXCEPT ![s] = "done"]
  /\ UNCHANGED << emVars, trips, mainpc, arrived, count, passVars, strength, stats,
                  incs, stranded_passengers, dead_passengers, hgVars >>

\* ------------------------------------------------------------- location
has_room_off_by_one(l) == count[l] <= max_capacity(l)

\* try_enter's test, made under the location's lock.
has_room(l) == count[l] < max_capacity(l)

leave_keeps_slot(l) == count' = count

\* Location.leave, under the location's lock.
leave(l) == count' = [count EXCEPT ![l] = @ - 1]

\* ------------------------------------------------------------ passenger
\* choose_activity: the weight of a location for an age group; every weight
\* is positive, so random.choices may return any location.
ActivityWeight(l, age_group) ==
  IF NameHasBar(LocationNames[l])
    THEN (IF age_group = "young" THEN 3 ELSE 2)
    ELSE IF NameHasBeach(LocationNames[l]) THEN 3 ELSE 1

Choosable ==
  {l \in Locations :
     \E g \in {"young", "adult", "senior"} : ActivityWeight(l, g) > 0}

\* The death a stay at a location may end in ("": none).
DeathKeyOf(l) ==
  CASE LocationNames[l] = "hiking_excursion" -> "died_cliff"
    [] LocationNames[l] = "snorkeling_excursion" -> "died_shark"
    [] OTHER -> ""

\* The incidents a stay at a location may run into, in the order of the
\* source's tests.
IncidentKeysOf(l) ==
  LET n == LocationNames[l] IN
  (IF NameHasRestaurant(n) THEN <<"intoxicated">> ELSE << >>)
  \o (IF NameHasBar(n) THEN <<"drunk">> ELSE << >>)
  \o (IF n = "shopping_street" THEN <<"popup_delay">> ELSE << >>)
  \o (IF n = "hiking_excursion" THEN <<"lost_hiking">> ELSE << >>)
  \o (IF n = "snorkeling_excursion" THEN <<"snorkel_delay">> ELSE << >>)
  \o (IF n = "paradise_beach" THEN <<"fell_asleep">> ELSE << >>)

has_arrived_unchecked(s) == TRUE

\* arrived_event.wait() returns only once the event is set.
has_arrived(s) == arrived[s]

\* run: the passenger leaves arrived_event.wait() once the event is set.
PArrive(p) ==
  /\ Running
  /\ ppc[p] = "wait"
  /\ has_arrived(ShipOf(p))
  /\ ppc' = [ppc EXCEPT ![p] = IF is_dead[p] THEN "finished" ELSE "loop"]
  /\ UNCHANGED << returns, emVars, trips, mainpc, shipVars, count, strength, cur, is_dead,
                  on_board, pkey, preg, stats, incs,
                  stranded_passengers, dead_passengers, hgVars >>

\* run: the test of the ashore loop, a read of departed_event; a pass that
\* begins chooses an activity and a transport and sleeps the travel time.
PLoop(p) ==
  /\ Running
  /\ ppc[p] = "loop"
  /\ IF departed[ShipOf(p)]
       THEN /\ ppc' = [ppc EXCEPT ![p] = "tail"]
            /\ UNCHANGED trips
       ELSE /\ trips < MaxTrips
            /\ trips' = trips + 1
            /\ ppc' = [ppc EXCEPT ![p] = "travel"]
  /\ UNCHANGED << emVars, mainpc, shipVars, count, strength, cur, is_dead,
                  on_board, pkey, preg, returns, stats, incs,
                  stranded_passengers, dead_passengers, hgVars >>

\* go_to_location: try_enter on the chosen location, under its lock.  On
\* True current_location is set, run finds it set and stay_in_activity
\* begins; on False go_to_location returns with nothing changed.
PTryEnter(p, l) ==
  /\ Running
  /\ ppc[p] = "travel"
  /\ l \in Choosable
  /\ IF has_room(l)
       THEN /\ count' = [count EXCEPT ![l] = @ + 1]
            /\ cur' = [cur EXCEPT ![p] = l]
            /\ ppc' = [ppc EXCEPT ![p] = "stay"]
       ELSE /\ ppc' = [ppc EXCEPT ![p] = "rejected"]
            /\ UNCHANGED << count, cur >>
  /\ UNCHANGED << returns, emVars, trips, mainpc, shipVars, strength, is_dead, on_board,
                  pkey, preg, stats, incs, stranded_passengers,
                  dead_passengers, hgVars >>

dwells_always(p) == TRUE

\* run: the test `if self.current_location`.
holds_location(p) == cur[p] /= 0

\* run after a try_enter that returned False: the test of current_location,
\* and, as it is None, the read of last_call_event that ends the pass.
PRejected(p) ==
  /\ Running
  /\ ppc[p] = "rejected"
  /\ IF holds_location(p)
       THEN /\ ppc' = [ppc EXCEPT ![p] = "stay"]
            /\ UNCHANGED returns
       ELSE IF last_call[ShipOf(p)]
         THEN /\ ppc' = [ppc EXCEPT ![p] = "return"]
              /\ returns' = [returns EXCEPT ![p] = @ + 1]
         ELSE /\ ppc' = [ppc EXCEPT ![p] = "loop"]
              /\ UNCHANGED returns
  /\ UNCHANGED << emVars, trips, mainpc, shipVars, count, strength, cur,
                  is_dead, on_board, pkey, preg, stats, incs,
                  stranded_passengers, dead_passengers, hgVars >>

\* stay_in_activity after the dwell: the death roll succeeds.
PDie(p) ==
  /\ Running
  /\ ppc[p] = "stay"
  /\ DeathKeyOf(cur[p]) /= ""
  /\ is_dead' = [is_dead EXCEPT ![p] = TRUE]
  /\ dead_passengers' = Append(dead_passengers, p)
  /\ pkey' = [pkey EXCEPT ![p] = DeathKeyOf(cur[p])]
  /\ ppc' = [ppc EXCEPT ![p] = "inc_read"]
  /\ UNCHANGED << returns, emVars, trips, mainpc, shipVars, count, strength, cur, on_board,
                  preg, stats, incs, stranded_passengers, hgVars >>

\* stay_in_activity after the dwell: no death, and an incident roll of the
\* location succeeds; stats[k] += 1 begins with its read of stats[k].
PIncident(p) ==
  /\ Running
  /\ ppc[p] = "stay"
  /\ \E i \in DOMAIN IncidentKeysOf(cur[p]) :
       LET k == IncidentKeysOf(cur[p])[i] IN
       /\ pkey' = [pkey EXCEPT ![p] = k]
       /\ preg' = [preg EXCEPT ![p] = stats[k]]
  /\ ppc' = [ppc EXCEPT ![p] = "inc_write"]
  /\ UNCHANGED << returns, emVars, trips, mainpc, shipVars, count, strength, cur, is_dead,
                  on_board, stats, incs, stranded_passengers,
                  dead_passengers, hgVars >>

\* stay_in_activity after the dwell: no roll succeeds, stay_in_activity
\* returns, and run calls current_location.leave, under the location's
\* lock, and sets current_location = None.
PStayEnds(p) ==
  /\ Running
  /\ ppc[p] = "stay"
  /\ leave(cur[p])
  /\ cur' = [cur EXCEPT ![p] = 0]
  /\ ppc' = [ppc EXCEPT ![p] = "check_last_call"]
  /\ UNCHANGED << returns, emVars, trips, mainpc, shipVars, strength, is_dead, on_board,
                  pkey, preg, stats, incs, stranded_passengers,
                  dead_passengers, hgVars >>

\* stats[k] += 1, first half: the read of stats[k].
PStatRead(p) ==
  /\ Running
  /\ ppc[p] = "inc_read"
  /\ preg' = [preg EXCEPT ![p] = stats[pkey[p]]]
  /\ ppc' = [ppc EXCEPT ![p] = "inc_write"]
  /\ UNCHANGED << returns, emVars, trips, mainpc, shipVars, count, strength, cur, is_dead,
                  on_board, pkey, stats, incs, stranded_passengers,
                  dead_passengers, hgVars >>

AfterInc_skips_leave(k) ==
  CASE k \in DeathKeys -> "finished"
    [] k \in {"boarded", "stranded"} -> "tail"
    [] OTHER -> "check_last_call"

AfterInc_dead_goes_on(k) ==
  CASE k \in {"boarded", "stranded"} -> "tail"
    [] OTHER -> "leave"

\* Where a passenger goes on after stats[k] += 1: a death returns from
\* stay_in_activity and from run; an incident sleeps and stay_in_activity
\* returns to run, which calls leave; boarded and stranded end return_to_ship,
\* and run breaks out of the loop.
AfterInc(k) ==
  CASE k \in DeathKeys -> "finished"
    [] k \in {"boarded", "stranded"} -> "tail"
    [] OTHER -> "leave"

\* stats[k] += 1, second half: the write of the value read plus one.
PStatWrite(p) ==
  /\ Running
  /\ ppc[p] = "inc_write"
  /\ stats' = [stats EXCEPT ![pkey[p]] = preg[p] + 1]
  /\ incs' = [incs EXCEPT ![pkey[p]] = @ + 1]
  /\ ppc' = [ppc EXCEPT ![p] = AfterInc(pkey[p])]
  /\ pkey' = [pkey EXCEPT ![p] = ""]
  /\ preg' = [preg EXCEPT ![p] = 0]
  /\ UNCHANGED << returns, emVars, trips, mainpc, shipVars, count, strength, cur, is_dead, on_board,
                  stranded_passengers, dead_passengers, hgVars >>

\* run: after an incident's sleep stay_in_activity returns, and run calls
\* current_location.leave, under the location's lock, and sets
\* current_location = None.
PLeave(p) ==
  /\ Running
  /\ ppc[p] = "leave"
  /\ leave(cur[p])
  /\ cur' = [cur EXCEPT ![p] = 0]
  /\ ppc' = [ppc EXCEPT ![p] = "check_last_call"]
  /\ UNCHANGED << returns, emVars, trips, mainpc, shipVars, strength, is_dead, on_board,
                  pkey, preg, stats, incs, stranded_passengers,
                  dead_passengers, hgVars >>

\* run: the read of last_call_event that ends a pass of the loop; when set,
\* return_to_ship is called and begins with its sleeps.
PCheckLastCall(p) ==
  /\ Running
  /\ ppc[p] = "check_last_call"
  /\ IF last_call[ShipOf(p)]
       THEN /\ ppc' = [ppc EXCEPT ![p] = "return"]
            /\ returns' = [returns EXCEPT ![p] = @ + 1]
       ELSE /\ ppc' = [ppc EXCEPT ![p] = "loop"]
            /\ UNCHANGED returns
  /\ UNCHANGED << emVars, trips, mainpc, shipVars, count, strength, cur, is_dead,
                  on_board, pkey, preg, stats, incs,
                  stranded_passengers, dead_passengers, hgVars >>

\* return_to_ship: the read of departed_event after the taxi ride.
PReadDeparted(p) ==
  /\ Running
  /\ ppc[p] = "return"
  /\ IF ~departed[ShipOf(p)]
       THEN /\ ppc' = [ppc EXCEPT ![p] = "board"]
            /\ UNCHANGED pkey
       ELSE /\ ppc' = [ppc EXCEPT ![p] = "inc_read"]
            /\ pkey' = [pkey EXCEPT ![p] = "stranded"]
  /\ UNCHANGED << returns, emVars, trips, mainpc, shipVars, count, strength, cur, is_dead,
                  on_board, preg, stats, incs, stranded_passengers,
                  dead_passengers, hgVars >>

\* return_to_ship: on_board = True, in the branch taken when departed_event
\* was read unset; stats["boarded"] += 1 begins with its read.
PBoard(p) ==
  /\ Running
  /\ ppc[p] = "board"
  /\ on_board' = [on_board EXCEPT ![p] = TRUE]
  /\ pkey' = [pkey EXCEPT ![p] = "boarded"]
  /\ preg' = [preg EXCEPT ![p] = stats["boarded"]]
  /\ ppc' = [ppc EXCEPT ![p] = "inc_write"]
  /\ UNCHANGED << returns, emVars, trips, mainpc, shipVars, count, strength, cur, is_dead,
                  stats, incs, stranded_passengers,
                  dead_passengers, hgVars >>

stranded_unless_dead(p) == ~is_dead[p]

\* run: the test after the loop.
ends_stranded(p) == ~on_board[p] /\ ~is_dead[p]

\* run: after the loop, the append to stranded_passengers under
\* stranded_lock, and the thread ends.
PTail(p) ==
  /\ Running
  /\ ppc[p] = "tail"
  /\ stranded_passengers' =
       IF ends_stranded(p) THEN Append(stranded_passengers, p)
                           ELSE stranded_passengers
  /\ ppc' = [ppc EXCEPT ![p] = "finished"]
  /\ UNCHANGED << returns, emVars, trips, mainpc, shipVars, count, strength, cur, is_dead,
                  on_board, pkey, preg, stats, incs, dead_passengers,
                  hgVars >>

\* -------------------------------------------------------- event manager
\* EventManager.run after the interval sleep: evt is drawn and announced;
\* stop_event is not read here.
after_interval == "event"

\* EventManager.run: the test of the while loop, a read of stop_event.
EMTest ==
  /\ Running
  /\ empc = "top"
  /\ empc' = IF stop_event THEN "done" ELSE "interval"
  /\ UNCHANGED << stop_event, trips, mainpc, shipVars, count, passVars,
                  strength, stats, incs, stranded_passengers,
                  dead_passengers, hgVars >>

\* EventManager.run: time.sleep(random.randint(5, 15)) is over, and an
\* ambient event is announced and begins.
EMWake ==
  /\ Running
  /\ empc = "interval"
  /\ empc' = after_interval
  /\ UNCHANGED << stop_event, trips, mainpc, shipVars, count, passVars,
                  strength, stats, incs, stranded_passengers,
                  dead_passengers, hgVars >>

\* EventManager.run: the event's sleep of 5 seconds is over and its end is
\* announced; the loop goes back to its test.
EMEventEnds ==
  /\ Running
  /\ empc = "event"
  /\ empc' = "top"
  /\ UNCHANGED << stop_event, trips, mainpc, shipVars, count, passVars,
                  strength, stats, incs, stranded_passengers,
                  dead_passengers, hgVars >>

\* ------------------------------------------------- main: join, tournament
\* main: every ship has been joined, and the sleep of 3 seconds is over.
MainJoin ==
  /\ mainpc = "join"
  /\ \A s \in Ships : shippc[s] = "done"
  /\ mainpc' = "hunger"
  /\ UNCHANGED << emVars, trips, shipVars, count, passVars, strength, stats, incs,
                  stranded_passengers, dead_passengers, hgVars >>

\* run_hunger_games: event_manager.stop_event.set().
MainStop ==
  /\ mainpc = "hunger"
  /\ stop_event' = TRUE
  /\ mainpc' = "games"
  /\ UNCHANGED << empc, trips, shipVars, count, passVars, strength, stats,
                  incs, stranded_passengers, dead_passengers, hgVars >>

\* The head of HungerGames.run: the registries are read and
\* fighters = list(stranded) is taken.
MainRunHungerGames ==
  /\ mainpc = "games"
  /\ hgInput' = stranded_passengers
  /\ fighters' = stranded_passengers
  /\ mainpc' = "shuffle"
  /\ UNCHANGED << emVars, trips, shipVars, count, passVars, strength, stats, incs,
                  stranded_passengers, dead_passengers, matches, survivor >>

Range(f) == {f[i] : i \in DOMAIN f}

\* The orders random.shuffle may leave a list in.
Shuffles(f) ==
  {[i \in DOMAIN f |-> f[pi[i]]] :
     pi \in {q \in [DOMAIN f -> DOMAIN f] : Range(q) = DOMAIN f}}

HGShuffle ==
  /\ mainpc = "shuffle"
  /\ fighters' \in Shuffles(fighters)
  /\ mainpc' = "fight"
  /\ UNCHANGED << emVars, trips, shipVars, count, passVars, strength, stats, incs,
                  stranded_passengers, dead_passengers, hgInput, matches,
                  survivor >>

\* The values random.randint(1, a.strength + b.strength) may return.
Draws(a, b) == 1..(strength[a] + strength[b])

Winner_strict(a, b, r) == IF r < strength[a] THEN a ELSE b

\* winner = a if r <= a.strength else b
Winner(a, b, r) == IF r <= strength[a] THEN a ELSE b

winner_dropped(rest, w) == rest

\* fighters.append(winner), after the two pops.
push_winner(rest, w) == Append(rest, w)

\* One pass of the while loop of HungerGames.run.
HGMatch ==
  /\ mainpc = "fight"
  /\ Len(fighters) > 1
  /\ LET n == Len(fighters)
         a == fighters[n]
         b == fighters[n - 1]
         rest == SubSeq(fighters, 1, n - 2)
     IN \E r \in Draws(a, b) :
          fighters' = push_winner(rest, Winner(a, b, r))
  /\ matches' = matches + 1
  /\ UNCHANGED << emVars, trips, mainpc, shipVars, count, passVars, strength, stats,
                  incs, stranded_passengers, dead_passengers, hgInput,
                  survivor >>

\* The loop has ended: the survivor, or none, is reported.
HGReport ==
  /\ mainpc = "fight"
  /\ ~(Len(fighters) > 1)
  /\ survivor' = IF fighters /= << >> THEN fighters[1] ELSE 0
  /\ mainpc' = "report"
  /\ UNCHANGED << emVars, trips, shipVars, count, passVars, strength, stats, incs,
                  stranded_passengers, dead_passengers, fighters, hgInput,
                  matches >>

\* main prints the statistics and returns; the daemon threads end with it.
MainExit ==
  /\ mainpc = "report"
  /\ mainpc' = "exited"
  /\ UNCHANGED << emVars, trips, shipVars, count, passVars, strength, stats, incs,
                  stranded_passengers, dead_passengers, hgVars >>

\* ------------------------------------------------------- specifications
Next ==
  \/ \E s \in Ships : SetupShip(s)
  \/ \E p \in Passengers : CreatePassenger(p)
  \/ \E s \in Ships : ShipArrive(s)
  \/ \E s \in Ships : ShipLastCall(s)
  \/ \E s \in Ships : ShipDepart(s)
  \/ \E p \in Passengers : PArrive(p)
  \/ \E p \in Passengers : PLoop(p)
  \/ \E p \in Passengers : \E l \in Locations : PTryEnter(p, l)
  \/ \E p \in Passengers : PRejected(p)
  \/ \E p \in Passengers : PDie(p)
  \/ \E p \in Passengers : PIncident(p)
  \/ \E p \in Passengers : PStayEnds(p)
  \/ \E p \in Passengers : PStatRead(p)
  \/ \E p \in Passengers : PStatWrite(p)
  \/ \E p \in Passengers : PLeave(p)
  \/ \E p \in Passengers : PCheckLastCall(p)
  \/ \E p \in Passengers : PReadDeparted(p)
  \/ \E p \in Passengers : PBoard(p)
  \/ \E p \in Passengers : PTail(p)
  \/ EMTest
  \/ EMWake
  \/ EMEventEnds
  \/ MainJoin
  \/ MainStop
  \/ MainRunHungerGames
  \/ HGShuffle
  \/ HGMatch
  \/ HGReport
  \/ MainExit

Spec == Init /\ [][Next]_vars

\* The day of the ships and the passengers alone: setup_day and the threads
\* it starts.  After setup_day the main thread writes nothing that a ship or
\* a passenger reads, so the ships, the passengers, the locations, stats and
\* the registries go through the same states here as under Spec (where main
\* may also end the process early).
DayNext ==
  \/ \E s \in Ships : SetupShip(s)
  \/ \E p \in Passengers : CreatePassenger(p)
  \/ \E s \in Ships : ShipArrive(s)
  \/ \E s \in Ships : ShipLastCall(s)
  \/ \E s \in Ships : ShipDepart(s)
  \/ \E p \in Passengers : PArrive(p)
  \/ \E p \in Passengers : PLoop(p)
  \/ \E p \in Passengers : \E l \in Locations : PTryEnter(p, l)
  \/ \E p \in Passengers : PRejected(p)
  \/ \E p \in Passengers : PDie(p)
  \/ \E p \in Passengers : PIncident(p)
  \/ \E p \in Passengers : PStayEnds(p)
  \/ \E p \in Passengers : PStatRead(p)
  \/ \E p \in Passengers : PStatWrite(p)
  \/ \E p \in Passengers : PLeave(p)
  \/ \E p \in Passengers : PCheckLastCall(p)
  \/ \E p \in Passengers : PReadDeparted(p)
  \/ \E p \in Passengers : PBoard(p)
  \/ \E p \in Passengers : PTail(p)

DaySpec == Init /\ [][DayNext]_vars

\* The tournament on its own: the day has ended with k passengers, k drawn
\* from sizes and their strengths from strengths, every one of them stranded
\* (each found departed_event set at the loop's test); the EventManager
\* sleeps, and main is about to call run_hunger_games.
TournamentInit(sizes, strengths) ==
  \E k \in sizes :
    /\ mainpc = "hunger"
    /\ shippc = [s \in Ships |-> "done"]
    /\ arrived = [s \in Ships |-> TRUE]
    /\ last_call = [s \in Ships |-> TRUE]
    /\ departed = [s \in Ships |-> TRUE]
    /\ count = [l \in Locations |-> 0]
    /\ ppc = [p \in 1..k |-> "finished"]
    /\ strength \in [1..k -> strengths]
    /\ cur = [p \in 1..k |-> 0]
    /\ is_dead = [p \in 1..k |-> FALSE]
    /\ on_board = [p \in 1..k |-> FALSE]
    /\ returns = [p \in 1..k |-> 0]
    /\ pkey = [p \in 1..k |-> ""]
    /\ preg = [p \in 1..k |-> 0]
    /\ trips = 0
    /\ stats = [key \in StatKeys |->
                  IF key = "total_passengers" THEN k ELSE 0]
    /\ incs = stats
    /\ stranded_passengers = [i \in 1..k |-> i]
    /\ dead_passengers = << >>
    /\ fighters = << >>
    /\ hgInput = << >>
    /\ matches = 0
    /\ survivor = 0
    /\ empc = "interval"
    /\ stop_event = FALSE

HGInit == TournamentInit(0..MaxFighters, FighterStrengths)

HGNext ==
  \/ MainStop
  \/ MainRunHungerGames
  \/ HGShuffle
  \/ HGMatch
  \/ HGReport
  \/ MainExit

HGSpec == HGInit /\ [][HGNext]_vars

\* The main thread is never kept from running: the tournament's steps are
\* taken as long as one is possible.
HGLive == HGSpec /\ WF_vars(HGNext)

\* One match between two combatants of any two strengths that
\* PassengerFactory.create may draw.
MatchInit == TournamentInit({2}, StrengthMin..StrengthMax)

MatchSpec == MatchInit /\ [][HGNext]_vars

\* The steps of each thread.
MainNext ==
  \/ \E s \in Ships : SetupShip(s)
  \/ \E p \in Passengers : CreatePassenger(p)
  \/ MainJoin
  \/ HGNext

ShipNext(s) == ShipArrive(s) \/ ShipLastCall(s) \/ ShipDepart(s)

PassengerNext(p) ==
  \/ PArrive(p)
  \/ PLoop(p)
  \/ \E l \in Locations : PTryEnter(p, l)
  \/ PRejected(p)
  \/ PDie(p)
  \/ PIncident(p)
  \/ PStayEnds(p)
  \/ PStatRead(p)
  \/ PStatWrite(p)
  \/ PLeave(p)
  \/ PCheckLastCall(p)
  \/ PReadDeparted(p)
  \/ PBoard(p)
  \/ PTail(p)

EMNext == EMTest \/ EMWake \/ EMEventEnds

\* Every thread that can take a step is scheduled in the end: every sleep is
\* over at some time and no lock is held for ever.
ThreadsFair ==
  /\ WF_vars(MainNext)
  /\ WF_vars(EMNext)
  /\ \A s \in Ships : WF_vars(ShipNext(s))
  /\ \A p \in Passengers : WF_vars(PassengerNext(p))

\* The whole program under fair scheduling.
Live == Spec /\ ThreadsFair

\* The ships and the passengers under fair scheduling, in a process that
\* does not end.
DayLive ==
  /\ DaySpec
  /\ WF_vars((\E s \in Ships : SetupShip(s))
               \/ (\E p \in Passengers : CreatePassenger(p)))
  /\ \A s \in Ships : WF_vars(ShipNext(s))
  /\ \A p \in Passengers : WF_vars(PassengerNext(p))

\* ---------------------------------------------------------------- claims
AllFinished == \A p \in Passengers : ppc[p] = "finished"

Boarded(p) == on_board[p]
Stranded(p) == p \in Range(stranded_passengers)
Dead(p) == p \in Range(dead_passengers)

\* HungerGames.run has read the registries.
TournamentStarted == mainpc \in {"shuffle", "fight", "report", "exited"}

\* C1: in every reachable state the count of every Location is at least 0
\* and at most its max_capacity.
C1_CountWithinCapacity ==
  \A l \in Locations : 0 <= count[l] /\ count[l] <= max_capacity(l)

\* A location is full while another passenger has come through try_enter or
\* leave and holds no location.
C1_Witness ==
  \E l \in Locations : \E p \in Passengers :
    /\ count[l] = max_capacity(l)
    /\ ppc[p] = "check_last_call"
    /\ cur[p] = 0

\* C2: no passenger is ever in two of Boarded, Stranded and Dead; a passenger
\* whose thread has finished is in exactly one of them; and once every
\* passenger thread has finished the sizes of the three sets sum to the
\* number of passengers created.
C2_ExactlyOneOutcome ==
  /\ \A p \in Passengers :
       /\ ~(Boarded(p) /\ Stranded(p))
       /\ ~(Boarded(p) /\ Dead(p))
       /\ ~(Stranded(p) /\ Dead(p))
       /\ ppc[p] = "finished" => (Boarded(p) \/ Stranded(p) \/ Dead(p))
  /\ AllFinished =>
       Cardinality({p \in Passengers : on_board[p]})
         + Len(stranded_passengers) + Len(dead_passengers)
       = Cardinality({p \in Passengers : ppc[p] /= "unborn"})

\* Every passenger thread has finished, one passenger boarded and another
\* is stranded.
C2_Witness ==
  /\ AllFinished
  /\ \E p \in Passengers : Boarded(p)
  /\ \E p \in Passengers : Stranded(p)

\* C3: for every ship, departed_event set implies last_call_event set, which
\* implies arrived_event set; a ship that has run to its end has set all
\* three; no event is ever cleared, and each is set by the one step of the
\* ship's run that is there to set it, which the ship takes once.
C3_EventsOnceInOrder ==
  /\ [](\A s \in Ships :
          /\ departed[s] => last_call[s]
          /\ last_call[s] => arrived[s]
          /\ shippc[s] = "done" => departed[s])
  /\ [][\A s \in Ships :
          /\ arrived[s] => arrived'[s]
          /\ last_call[s] => last_call'[s]
          /\ departed[s] => departed'[s]
          /\ arrived'[s] /= arrived[s] =>
               shippc[s] = "scheduled" /\ shippc'[s] = "ashore"
          /\ last_call'[s] /= last_call[s] =>
               shippc[s] = "ashore" /\ shippc'[s] = "last_call"
          /\ departed'[s] /= departed[s] =>
               shippc[s] = "last_call" /\ shippc'[s] = "done"]_vars

\* A ship has run to its end and its three events are set.
C3_Witness ==
  \E s \in Ships :
    shippc[s] = "done" /\ arrived[s] /\ last_call[s] /\ departed[s]

\* C4: no step sets a passenger's on_board to true, or writes
\* stats["boarded"] for it, in a state where its ship's departed_event is set.
C4_BoardAtomicWithDeparture ==
  [][\A p \in Passengers :
       (on_board'[p] /\ ~on_board[p]) => ~departed[ShipOf(p)]]_vars

\* C5: once every passenger thread has finished, the count of every Location
\* is 0: a passenger that died has given its slot back.
C5_SlotReleasedOnDeath ==
  AllFinished => \A l \in Locations : count[l] = 0

\* C6: once every passenger thread has finished, boarded + stranded +
\* died_cliff + died_shark equals total_passengers.
C6_OutcomeCountersSum ==
  AllFinished =>
    stats["boarded"] + stats["stranded"] + stats["died_cliff"]
      + stats["died_shark"] = stats["total_passengers"]

\* C7: the tournament on N combatants ends; while it runs the combatants left
\* are among the N and the matches played are the combatants eliminated; at
\* its end N - 1 matches were played and the one survivor is one of the N
\* (no match and no survivor when N = 0); and each match puts one of its two
\* combatants back and leaves the others alone.
C7_Tournament ==
  /\ [](mainpc \in {"fight", "report", "exited"} =>
          /\ Range(fighters) \subseteq Range(hgInput)
          /\ Len(hgInput) >= 1 => matches + Len(fighters) = Len(hgInput)
          /\ Len(hgInput) = 0 => matches = 0 /\ fighters = << >>)
  /\ [](mainpc \in {"report", "exited"} =>
          IF Len(hgInput) = 0
            THEN matches = 0 /\ survivor = 0
            ELSE /\ matches = Len(hgInput) - 1
                 /\ fighters = << survivor >>
                 /\ survivor \in Range(hgInput))
  /\ [][matches' /= matches =>
          LET n == Len(fighters) IN
          /\ matches' = matches + 1
          /\ n >= 2
          /\ Len(fighters') = n - 1
          /\ fighters'[n - 1] \in {fighters[n], fighters[n - 1]}
          /\ \A i \in 1..(n - 2) : fighters'[i] = fighters[i]]_vars
  /\ <>(mainpc = "exited")

\* A tournament of at least three combatants has ended with a survivor.
C7_Witness ==
  /\ mainpc = "report"
  /\ Len(hgInput) >= 3
  /\ matches = Len(hgInput) - 1
  /\ survivor \in Range(hgInput)

\* C8: once HungerGames.run has read the registries, every passenger thread
\* has finished: no later step appends to stranded_passengers or
\* dead_passengers or changes a stats counter.
C8_RegistriesQuiescent ==
  [][TournamentStarted =>
       /\ stranded_passengers' = stranded_passengers
       /\ dead_passengers' = dead_passengers
       /\ stats' = stats]_vars

\* C9: no increment of a stats counter is lost: the value of every counter
\* is the number of increments of it that have completed.
C9_NoLostIncrement ==
  \A k \in StatKeys : stats[k] = incs[k]

\* C10: no step makes a stats counter smaller.
C10_CountersMonotone ==
  [][\A k \in StatKeys : stats'[k] >= stats[k]]_vars

\* C11: a passenger calls return_to_ship at most once and only in a state
\* where its ship's last_call_event is set, and a passenger whose thread has
\* finished without dying has called it exactly once.
C11_ReturnExactlyOnce ==
  /\ [](\A p \in Passengers :
          /\ returns[p] <= 1
          /\ (ppc[p] = "finished" /\ ~is_dead[p]) => returns[p] = 1)
  /\ [][\A p \in Passengers :
          returns'[p] /= returns[p] =>
            last_call[ShipOf(p)] /\ returns'[p] = returns[p] + 1]_vars

\* C12: no passenger is in stranded_passengers twice; a passenger whose
\* thread has finished is in stranded_passengers if and only if it took the
\* branch of return_to_ship that counts it in stats["stranded"]; and once
\* every thread has finished the registry has as many entries as increments
\* of stats["stranded"] were made.
C12_StrandedCountedOnce ==
  /\ \A i, j \in DOMAIN stranded_passengers :
       stranded_passengers[i] = stranded_passengers[j] => i = j
  /\ \A p \in Passengers :
       ppc[p] = "finished" =>
         (Stranded(p) <=> (returns[p] = 1 /\ ~on_board[p]))
  /\ AllFinished => Len(stranded_passengers) = incs["stranded"]

\* C13: once a ship's departed_event is set, each of its passengers in the
\* end finishes Passenger.run as Boarded, Stranded or Dead.
C13_EveryPassengerTerminates ==
  \A p \in Passengers :
    departed[ShipOf(p)] ~>
      (ppc[p] = "finished" /\ (Boarded(p) \/ Stranded(p) \/ Dead(p)))

\* C14: the count of every location is the number of passengers whose
\* current_location it is, so a passenger holds at most one slot; a count
\* goes up by one only as a passenger that holds no location takes that
\* one, and down by one only as a passenger leaves the location it holds;
\* and no passenger goes from one location to another without leaving.
C14_AtMostOneLocation ==
  /\ [](\A l \in Locations :
          count[l] = Cardinality({p \in Passengers : cur[p] = l}))
  /\ [][\A l \in Locations :
          count'[l] /= count[l] =>
            \E p \in Passengers :
              \/ cur[p] = 0 /\ cur'[p] = l /\ count'[l] = count[l] + 1
              \/ cur[p] = l /\ cur'[p] = 0 /\ count'[l] = count[l] - 1]_vars
  /\ [][\A p \in Passengers :
          cur'[p] /= cur[p] => (cur[p] = 0 \/ cur'[p] = 0)]_vars

\* Two passengers hold two different locations, and one of them is in a
\* later pass of its loop than its first.
C14_Witness ==
  \E p, q \in Passengers :
    /\ cur[p] /= 0 /\ cur[q] /= 0 /\ cur[p] /= cur[q]
    /\ ppc[p] = "stay" /\ ppc[q] = "stay"
    /\ trips >= 3

\* C15: a passenger that is in return_to_ship, has boarded, is at the tail
\* of run or is in stranded_passengers holds no location: its
\* current_location is None and no count still includes it.
C15_SlotReleasedBeforeReturn ==
  \A p \in Passengers :
    (\/ returns[p] >= 1
     \/ ppc[p] \in {"return", "board", "tail"}
     \/ on_board[p]
     \/ Stranded(p)) =>
      /\ cur[p] = 0
      /\ \A l \in Locations :
           count[l] = Cardinality({q \in Passengers \ {p} : cur[q] = l})

\* The one passenger ashore has had an incident at a location, has left it
\* and is in return_to_ship.
C15_Witness ==
  \E p \in Passengers :
    /\ ppc[p] = "return"
    /\ cur[p] = 0
    /\ \A q \in Passengers \ {p} : ppc[q] = "wait"
    /\ incs["drunk"] + incs["lost_hiking"] + incs["snorkel_delay"] >= 1
    /\ \A l \in Locations : count[l] = 0

\* C16: while its ship's arrived_event is unset a passenger has done
\* nothing: it is not yet started or is in arrived_event.wait(), holds no
\* location, has not called return_to_ship, has not boarded, is not in
\* stranded_passengers and is incrementing no counter.
C16_NoActionBeforeArrival ==
  \A p \in Passengers :
    ~arrived[ShipOf(p)] =>
      /\ ppc[p] \in {"unborn", "wait"}
      /\ cur[p] = 0
      /\ returns[p] = 0
      /\ ~on_board[p]
      /\ ~Stranded(p)
      /\ pkey[p] = ""

\* Every passenger has been started and waits for a ship that is scheduled
\* and has not arrived, while main has gone on to join the ships.
C16_Witness ==
  /\ mainpc = "join"
  /\ \A p \in Passengers :
       /\ ppc[p] = "wait"
       /\ shippc[ShipOf(p)] = "scheduled"
       /\ ~arrived[ShipOf(p)]

C18_DeathIsPermanent ==
  /\ [](\A p \in Passengers :
          /\ is_dead[p] <=> Dead(p)
          /\ Cardinality({i \in DOMAIN dead_passengers :
                            dead_passengers[i] = p}) <= 1
          /\ is_dead[p] =>
               /\ ~on_board[p]
               /\ ~Stranded(p)
               /\ returns[p] = 0
               /\ ppc[p] \in {"inc_read", "inc_write", "finished"}
               /\ pkey[p] \in DeathKeys \cup {""})
  /\ [][\A p \in Passengers :
          is_dead[p] =>
            /\ is_dead'[p]
            /\ cur'[p] = cur[p]
            /\ on_board'[p] = on_board[p]
            /\ returns'[p] = returns[p]
            /\ dead_passengers' = dead_passengers
                 \/ \E q \in Passengers \ {p} :
                      dead_passengers' = Append(dead_passengers, q)
            /\ stranded_passengers' = stranded_passengers
                 \/ \E q \in Passengers \ {p} :
                      stranded_passengers' = Append(stranded_passengers, q)
          ]_vars

\* A passenger has died and its thread has ended, and later another
\* passenger has boarded and ended.
C18_Witness ==
  \E p, q \in Passengers :
    /\ is_dead[p] /\ ppc[p] = "finished"
    /\ stats[DeathKeyOf(cur[p])] = 1
    /\ on_board[q] /\ ppc[q] = "finished"

\* C19: once stop_event is set the EventManager begins no new ambient
\* event, and its thread ends (by returning from run, or with the process).
C19_StopObservedAtNextWake ==
  /\ [][(stop_event /\ empc' /= empc) => empc' /= "event"]_vars
  /\ (stop_event ~> (empc = "done" \/ ~Running))

\* C20: before each match between a and b, of the a.strength + b.strength
\* values the one draw may take, a wins for exactly a.strength of them and
\* b wins for exactly b.strength of them.
C20_WinProportionalToStrength ==
  (mainpc = "fight" /\ Len(fighters) > 1) =>
    LET n == Len(fighters)
        a == fighters[n]
        b == fighters[n - 1]
        AWins == {r \in Draws(a, b) : Winner(a, b, r) = a}
        BWins == {r \in Draws(a, b) : Winner(a, b, r) = b}
    IN /\ Cardinality(Draws(a, b)) = strength[a] + strength[b]
       /\ Cardinality(AWins) = strength[a]
       /\ Cardinality(BWins) = strength[b]
       /\ AWins \cup BWins = Draws(a, b)

\* A match between the weakest and the strongest combatant there can be has
\* been played, and the weakest has won it.
C20_Witness ==
  /\ mainpc = "report"
  /\ Len(hgInput) = 2
  /\ matches = 1
  /\ strength[1] = StrengthMin
  /\ strength[2] = StrengthMax
  /\ survivor = 1

====
